---- MODULE Spec2Model ----
(***************************************************************************)
(* The agent tools of react_agent/tools.py: the Tavily search wrapper and  *)
(* the three weather lookups (get_weather, get_weather_1, get_weather_str) *)
(* that chain a geocoding request with a forecast request.                 *)
(*                                                                         *)
(* An invocation is a record: the tool, its argument, the upstream         *)
(* responses the outside world holds for it (the mocked geocoder, forecast *)
(* service and search backend), the position in the function body (pc),    *)
(* the locals lat/lon, the log of outbound requests and the outcome        *)
(* (a returned value or a raised fault).                                   *)
(*                                                                         *)
(* Texts are sequences of pieces: a literal of an f-string is one piece,   *)
(* an interpolated value is spelled character by character.  An optional   *)
(* value is <<>> (None, or a missing key) or <<v>>.  Temperatures and wind *)
(* speeds are floats with one decimal, held in tenths (180 is 18.0).       *)
(***************************************************************************)
EXTENDS Integers, Sequences, FiniteSets

VARIABLES calls

vars == <<calls>>

\* Most geocoding matches a mocked response holds.
MaxMatches == 2
\* Largest max_search_results the run context holds.
MaxResults == 3

---------------------------------------------------------------------------
\* Characters and Python's str.title()

LowerCase == <<"a","b","c","d","e","f","g","h","i","j","k","l","m",
               "n","o","p","q","r","s","t","u","v","w","x","y","z">>
UpperCase == <<"A","B","C","D","E","F","G","H","I","J","K","L","M",
               "N","O","P","Q","R","S","T","U","V","W","X","Y","Z">>

IndexIn(ch, alphabet) ==
    IF \E i \in 1..Len(alphabet) : alphabet[i] = ch
    THEN CHOOSE i \in 1..Len(alphabet) : alphabet[i] = ch
    ELSE 0

IsCased(ch) == IndexIn(ch, LowerCase) > 0 \/ IndexIn(ch, UpperCase) > 0

ToUpper(ch) == IF IndexIn(ch, LowerCase) > 0 THEN UpperCase[IndexIn(ch, LowerCase)] ELSE ch

ToLower(ch) == IF IndexIn(ch, UpperCase) > 0 THEN LowerCase[IndexIn(ch, UpperCase)] ELSE ch

\* A plausible slip: the city is echoed as given (as get_weather does).
TitleOmitted(s) == s

\* str.title(): a cased character is upper-cased when it starts the string or
\* follows an uncased character, and lower-cased otherwise.
Title(s) ==
    [i \in 1..Len(s) |->
        IF i = 1 \/ ~IsCased(s[i - 1]) THEN ToUpper(s[i]) ELSE ToLower(s[i])]

Digit(d) == <<"0","1","2","3","4","5","6","7","8","9">>[d + 1]

RECURSIVE Digits(_)
Digits(n) == IF n < 10 THEN <<Digit(n)>> ELSE Digits(n \div 10) \o <<Digit(n % 10)>>

Abs(n) == IF n < 0 THEN -n ELSE n

Sign(n) == IF n < 0 THEN <<"-">> ELSE <<>>

\* str() of an int, of a float held in tenths, of None.
IntText(n) == Sign(n) \o Digits(Abs(n))

FloatText(t) == Sign(t) \o Digits(Abs(t) \div 10) \o <<".", Digit(Abs(t) % 10)>>

NoneText == <<"N","o","n","e">>

FmtFloat(opt) == IF opt = <<>> THEN NoneText ELSE FloatText(opt[1])

FmtInt(opt) == IF opt = <<>> THEN NoneText ELSE IntText(opt[1])

\* sub occurs in s as a contiguous run.
Contains(s, sub) ==
    \E i \in 0..(Len(s) - Len(sub)) : SubSeq(s, i + 1, i + Len(sub)) = sub

---------------------------------------------------------------------------
\* Values: faults, outcomes, upstream responses, requests

WeatherTools == {"get_weather", "get_weather_1", "get_weather_str"}

\* The variants whose body is wrapped in try / except Exception.
Guarded == {"get_weather", "get_weather_1"}

\* The city names invocations are made with.
Cities == { <<"b","e","r","l","i","n">>,
            <<"B","e","r","l","i","n">>,
            <<"n","e","w"," ","y","o","r","k">> }

Queries == { <<"weather in Berlin">>, <<"What is TLA+?">> }

\* An exception: its class and str(e).
Fault(type, msg) == [type |-> type, msg |-> msg]

NoFault == Fault("", "")

NameErrorAsyncio == Fault("NameError", "name 'asyncio' is not defined")

ConnectionFault == Fault("ConnectionError", "connection failed")

HTTPFault == Fault("HTTPError", "bad status")

JSONFault == Fault("JSONDecodeError", "Expecting value")

KeyFault(key) == Fault("KeyError", key)

BackendFault == Fault("BackendError", "search backend failed")

\* What an invocation ends with: a returned str, dict or None, or a raised fault.
Pending == [kind |-> "pending", value |-> <<>>]

Str(text) == [kind |-> "str", value |-> text]

Dict(rec) == [kind |-> "dict", value |-> rec]

NoneValue == [kind |-> "none", value |-> <<>>]

Raised(f) == [kind |-> "raise", value |-> f]

\* A geocoding match: latitude and longitude, either key possibly missing.
Matches == { [lat |-> <<52>>, lon |-> <<13>>],
             [lat |-> <<40>>, lon |-> <<-74>>],
             [lat |-> <<>>,   lon |-> <<13>>] }

MatchLists == UNION { [1..n -> Matches] : n \in 0..MaxMatches }

\* The current-conditions object of a forecast body, any field possibly missing.
Currents == [ temperature : {<<>>, <<180>>, <<-35>>},
              windspeed   : {<<>>, <<100>>},
              weathercode : {<<>>, <<2>>} ]

\* A response of requests.get: "fault" (the call raises), "error" (a non-2xx
\* status), "garbled" (2xx, the body is not JSON) or "ok" with its JSON body.
Failures == { [status |-> s, body |-> <<>>] : s \in {"fault", "error", "garbled"} }

GeoResponses == Failures \cup { [status |-> "ok", body |-> m] : m \in MatchLists }

\* The body of a forecast response: <<>> without the current_weather key.
WxResponses == Failures \cup { [status |-> "ok", body |-> b] :
                                 b \in {<<>>} \cup { <<cur>> : cur \in Currents } }

Payloads == { [results |-> <<"r1">>], [results |-> <<"r1", "r2">>] }

\* What the search backend answers: a fault, None (<<>>) or a payload.
SearchResponses == { [status |-> "fault", body |-> <<>>] }
                   \cup { [status |-> "ok", body |-> b] :
                            b \in {<<>>} \cup { <<p>> : p \in Payloads } }

Unused == [status |-> "unused", body |-> <<>>]

\* The upstream an invocation runs against, and the run context's
\* max_search_results (<<>> for the weather tools, which read no context).
Upstream(geo, wx, search, ctx) == [geo |-> geo, wx |-> wx, search |-> search, ctx |-> ctx]

\* An outbound request.
GeoRequest(city) ==
    [endpoint |-> "geocode", text |-> city, limit |-> <<1>>, lat |-> <<>>, lon |-> <<>>]

WxRequest(lat, lon) ==
    [endpoint |-> "forecast", text |-> <<>>, limit |-> <<>>, lat |-> lat, lon |-> lon]

\* A plausible slip: a fixed limit instead of the context's.
SearchRequestFixedLimit(query, limit) ==
    [endpoint |-> "search", text |-> query, limit |-> <<1>>, lat |-> <<>>, lon |-> <<>>]

SearchRequest(query, limit) ==
    [endpoint |-> "search", text |-> query, limit |-> <<limit>>, lat |-> <<>>, lon |-> <<>>]

Count(requests, endpoint) ==
    Cardinality({ i \in 1..Len(requests) : requests[i].endpoint = endpoint })

---------------------------------------------------------------------------
\* Invocations

Slots == {"a", "b"}

Idle == [tool |-> "", arg |-> <<>>, up |-> Upstream(Unused, Unused, Unused, <<>>),
         pc |-> "IDLE", lat |-> <<>>, lon |-> <<>>,
         requests |-> <<>>, outcome |-> Pending, fault |-> NoFault, trail |-> <<>>]

Terminal(c) ==
    c.pc \in {"NOT_FOUND", "GEOCODE_FAILED", "FORECAST_FAILED", "DONE", "SEARCH_FAILED"}

\* A plausible slip: a module-level request log shared by all invocations.
EnterSharedLog(tool, arg, up) ==
    [Idle EXCEPT !.tool = tool, !.arg = arg, !.up = up, !.pc = "START",
                 !.requests = calls["a"].requests, !.trail = <<"START">>]

\* Function entry: the arguments bound, every local fresh.
Enter(tool, arg, up) ==
    [Idle EXCEPT !.tool = tool, !.arg = arg, !.up = up, !.pc = "START",
                 !.trail = <<"START">>]

Goto(c, pc) == [c EXCEPT !.pc = pc, !.trail = Append(@, pc)]

Return(c, pc, outcome) == [Goto(c, pc) EXCEPT !.outcome = outcome]

\* The module imports typing, langchain_tavily, langgraph, react_agent.context and
\* requests; the name asyncio is bound nowhere.
AsyncioImported == FALSE

\* get_weather reaches requests.get through asyncio.to_thread.
ViaThread(c) == c.tool = "get_weather"

\* Whether evaluating the call expression gets as far as sending the request.
Sent(c) == ViaThread(c) => AsyncioImported

\* A plausible slip: a retry that sends the request a second time.
SendRetry(c, request) ==
    IF Sent(c) THEN [c EXCEPT !.requests = @ \o <<request, request>>] ELSE c

Send(c, request) ==
    IF Sent(c) THEN [c EXCEPT !.requests = Append(@, request)] ELSE c

\* The fault the call expression raises against response r, NoFault when it
\* returns the response.
Fetch(c, r) ==
    IF ~Sent(c) THEN NameErrorAsyncio
    ELSE IF r.status = "fault" THEN ConnectionFault
    ELSE NoFault

\* A plausible slip: the status check left out.
RaiseForStatusOmitted(r) == NoFault

\* Response.raise_for_status().
RaiseForStatus(r) == IF r.status = "error" THEN HTTPFault ELSE NoFault

\* Response.json().
Json(r) == IF r.status = "garbled" THEN JSONFault ELSE NoFault

ErrorSentence(f) == Str(<<"Error retrieving weather data: ", f.msg>>)

ErrorRecord(f) == Dict([error |-> <<f.msg>>])

\* Fault f is raised in the body of c (kept in c.fault for the record).
Throw(c, f) == [c EXCEPT !.fault = f]

\* A plausible slip: a handler for HTTP errors only.
HandleOnlyHTTP(c, pc, f) ==
    CASE c.tool = "get_weather" /\ f.type = "HTTPError" ->
           Return(Throw(c, f), pc, ErrorSentence(f))
      [] c.tool = "get_weather_1" /\ f.type = "HTTPError" ->
           Return(Throw(c, f), pc, ErrorRecord(f))
      [] OTHER -> Return(Throw(c, f), pc, Raised(f))

\* Fault f in the body of c: the except clause of the guarded variants turns it
\* into a returned value, get_weather_str and search let it propagate.
Handle(c, pc, f) ==
    CASE c.tool = "get_weather" -> Return(Throw(c, f), pc, ErrorSentence(f))
      [] c.tool = "get_weather_1" -> Return(Throw(c, f), pc, ErrorRecord(f))
      [] OTHER -> Return(Throw(c, f), pc, Raised(f))

---------------------------------------------------------------------------
\* The weather lookups, step by step

\* Response.ok: raise_for_status() raises nothing.
Ok(r) == RaiseForStatus(r) = NoFault

\* The key a variant reads a coordinate under (Open-Meteo or Nominatim naming).
LatKey(c) == IF c.tool = "get_weather" THEN "'latitude'" ELSE "'lat'"

LonKey(c) == IF c.tool = "get_weather" THEN "'longitude'" ELSE "'lon'"

\* The value returned when the geocoder has no match.
NotFound(c) ==
    CASE c.tool = "get_weather" ->
           Str(<<"Sorry, could not find location info for city '">> \o c.arg \o <<"'.">>)
      [] c.tool = "get_weather_1" ->
           Dict([error |-> <<"Can't find location for '">> \o c.arg \o <<"'.">>])
      [] OTHER ->
           Str(<<"Sorry, I couldn't find location for ">> \o c.arg \o <<".">>)

\* get_weather_str's value for a forecast response with a non-2xx status.
CouldNotFetch(c) ==
    Str(<<"Sorry, I couldn't fetch weather data for ">> \o c.arg \o <<".">>)

\* Entering the geocoding step: the request goes out.
IssueGeocode(c) == Send(Goto(c, "GEOCODING"), GeoRequest(c.arg))

\* The first match's coordinates become lat and lon.
Geocoded(c, match) ==
    IF match.lat = <<>> THEN Handle(c, "GEOCODE_FAILED", KeyFault(LatKey(c)))
    ELSE IF match.lon = <<>> THEN Handle(c, "GEOCODE_FAILED", KeyFault(LonKey(c)))
    ELSE [Goto(c, "GEOCODED") EXCEPT !.lat = match.lat, !.lon = match.lon]

\* The geocoding step from the response on.
ResolveGeocode(c) ==
    LET r == c.up.geo IN
    IF Fetch(c, r) # NoFault THEN Handle(c, "GEOCODE_FAILED", Fetch(c, r))
    ELSE IF c.tool = "get_weather_str" THEN
        IF ~Ok(r) THEN Return(c, "NOT_FOUND", NotFound(c))
        ELSE IF Json(r) # NoFault THEN Handle(c, "GEOCODE_FAILED", Json(r))
        ELSE IF Len(r.body) = 0 THEN Return(c, "NOT_FOUND", NotFound(c))
        ELSE Geocoded(c, r.body[1])
    ELSE
        IF RaiseForStatus(r) # NoFault THEN Handle(c, "GEOCODE_FAILED", RaiseForStatus(r))
        ELSE IF Json(r) # NoFault THEN Handle(c, "GEOCODE_FAILED", Json(r))
        ELSE IF Len(r.body) = 0 THEN Return(c, "NOT_FOUND", NotFound(c))
        ELSE Geocoded(c, r.body[1])

\* Entering the forecast step: the request goes out with lat and lon.
IssueForecast(c) == Send(Goto(c, "FORECASTING"), WxRequest(c.lat, c.lon))

\* data.get("current_weather", {}).
CurrentOrEmpty(body) ==
    IF body = <<>> THEN [temperature |-> <<>>, windspeed |-> <<>>, weathercode |-> <<>>]
    ELSE body[1]

\* get_weather_1's record.
SuccessRecord(city, cur) ==
    [city |-> Title(city), temperature_celsius |-> cur.temperature,
     windspeed_kmh |-> cur.windspeed, weather_code |-> cur.weathercode]

\* get_weather_str's sentence ("(deg)" stands for the degree sign).
SentenceStr(city, cur) ==
    <<"The current temperature in ">> \o Title(city) \o <<" is ">>
        \o FmtFloat(cur.temperature) \o <<"(deg)C with wind speed ">>
        \o FmtFloat(cur.windspeed) \o <<" km/h (weather code: ">>
        \o FmtInt(cur.weathercode) \o <<").">>

\* get_weather's sentence: the city as given, no weather code.
Sentence(city, t, w) ==
    <<"Current weather in ">> \o city \o <<": temperature ">> \o FmtFloat(t)
        \o <<"(deg)C, windspeed ">> \o FmtFloat(w) \o <<" km/h.">>

\* get_weather indexes wx["current_weather"]["temperature"] and ["windspeed"].
Indexed(c, body) ==
    IF body = <<>> THEN Handle(c, "FORECAST_FAILED", KeyFault("'current_weather'"))
    ELSE IF body[1].temperature = <<>>
        THEN Handle(c, "FORECAST_FAILED", KeyFault("'temperature'"))
    ELSE IF body[1].windspeed = <<>>
        THEN Handle(c, "FORECAST_FAILED", KeyFault("'windspeed'"))
    ELSE Return(c, "DONE", Str(Sentence(c.arg, body[1].temperature, body[1].windspeed)))

\* The forecast step from the response on.
ResolveForecast(c) ==
    LET r == c.up.wx IN
    IF Fetch(c, r) # NoFault THEN Handle(c, "FORECAST_FAILED", Fetch(c, r))
    ELSE IF c.tool = "get_weather_str" THEN
        IF ~Ok(r) THEN Return(c, "FORECAST_FAILED", CouldNotFetch(c))
        ELSE IF Json(r) # NoFault THEN Handle(c, "FORECAST_FAILED", Json(r))
        ELSE Return(c, "DONE", Str(SentenceStr(c.arg, CurrentOrEmpty(r.body))))
    ELSE
        IF RaiseForStatus(r) # NoFault THEN Handle(c, "FORECAST_FAILED", RaiseForStatus(r))
        ELSE IF Json(r) # NoFault THEN Handle(c, "FORECAST_FAILED", Json(r))
        ELSE IF c.tool = "get_weather_1"
            THEN Return(c, "DONE", Dict(SuccessRecord(c.arg, CurrentOrEmpty(r.body))))
        ELSE Indexed(c, r.body)

---------------------------------------------------------------------------
\* The search tool

\* TavilySearch(max_results = context.max_search_results).ainvoke({"query": query}).
IssueSearch(c) == Send(Goto(c, "SEARCHING"), SearchRequest(c.arg, c.up.ctx[1]))

\* The backend's answer is returned as it is; its fault is not caught.
ResolveSearch(c) ==
    LET r == c.up.search IN
    IF r.status = "fault" THEN Handle(c, "SEARCH_FAILED", BackendFault)
    ELSE IF r.body = <<>> THEN Return(c, "DONE", NoneValue)
    ELSE Return(c, "DONE", Dict(r.body[1]))

---------------------------------------------------------------------------
\* Actions

Free(s) == calls[s].pc = "IDLE" \/ Terminal(calls[s])

\* The agent runtime calls a weather tool.
Invoke(s, tool, city, geo, wx) ==
    /\ calls[s].pc = "IDLE"
    /\ calls' = [calls EXCEPT ![s] = Enter(tool, city, Upstream(geo, wx, Unused, <<>>))]

\* The agent runtime calls the search tool.
InvokeSearch(s, query, limit, resp) ==
    /\ calls[s].pc = "IDLE"
    /\ calls' = [calls EXCEPT ![s] = Enter("search", query, Upstream(Unused, Unused, resp, <<limit>>))]

\* The call of slot "a" is made again, with the same argument against the same
\* upstream, while or after that call runs.
Reinvoke(s) ==
    /\ calls["a"].pc # "IDLE"
    /\ Free(s)
    /\ calls' = [calls EXCEPT ![s] = Enter(calls["a"].tool, calls["a"].arg, calls["a"].up)]

GeocodeCall(s) ==
    /\ calls[s].pc = "START"
    /\ calls[s].tool \in WeatherTools
    /\ calls' = [calls EXCEPT ![s] = IssueGeocode(calls[s])]

GeocodeReply(s) ==
    /\ calls[s].pc = "GEOCODING"
    /\ calls' = [calls EXCEPT ![s] = ResolveGeocode(calls[s])]

ForecastCall(s) ==
    /\ calls[s].pc = "GEOCODED"
    /\ calls' = [calls EXCEPT ![s] = IssueForecast(calls[s])]

ForecastReply(s) ==
    /\ calls[s].pc = "FORECASTING"
    /\ calls' = [calls EXCEPT ![s] = ResolveForecast(calls[s])]

SearchCall(s) ==
    /\ calls[s].pc = "START"
    /\ calls[s].tool = "search"
    /\ calls' = [calls EXCEPT ![s] = IssueSearch(calls[s])]

SearchReply(s) ==
    /\ calls[s].pc = "SEARCHING"
    /\ calls' = [calls EXCEPT ![s] = ResolveSearch(calls[s])]

\* The outcome goes to the caller and the frame is discarded.
Deliver(s) ==
    /\ Terminal(calls[s])
    /\ calls' = [calls EXCEPT ![s] = Idle]

Init == calls = [s \in Slots |-> Idle]

\* One caller, one tool call at a time.
Next ==
    \/ /\ calls["a"].pc = "IDLE"
       /\ \E tool \in WeatherTools, city \in Cities, geo \in GeoResponses, wx \in WxResponses :
             Invoke("a", tool, city, geo, wx)
    \/ /\ calls["a"].pc = "IDLE"
       /\ \E query \in Queries, limit \in 1..MaxResults, resp \in SearchResponses :
             InvokeSearch("a", query, limit, resp)
    \/ GeocodeCall("a")
    \/ GeocodeReply("a")
    \/ ForecastCall("a")
    \/ ForecastReply("a")
    \/ SearchCall("a")
    \/ SearchReply("a")
    \/ Deliver("a")

Spec == Init /\ [][Next]_vars

\* A weather call and repetitions of it, one after the other or interleaved.
NextRepeated ==
    \/ /\ calls["a"].pc = "IDLE"
       /\ \E tool \in WeatherTools, city \in Cities, geo \in GeoResponses, wx \in WxResponses :
             Invoke("a", tool, city, geo, wx)
    \/ \E s \in Slots : Reinvoke(s)
    \/ \E s \in Slots : GeocodeCall(s)
    \/ \E s \in Slots : GeocodeReply(s)
    \/ \E s \in Slots : ForecastCall(s)
    \/ \E s \in Slots : ForecastReply(s)

SpecRepeated == Init /\ [][NextRepeated]_vars

---------------------------------------------------------------------------
\* Properties

\* The upstream of c geocodes the city: a 2xx JSON answer whose first match
\* holds both coordinates.
Geocodes(c) ==
    /\ c.up.geo.status = "ok"
    /\ Len(c.up.geo.body) >= 1
    /\ c.up.geo.body[1].lat # <<>>
    /\ c.up.geo.body[1].lon # <<>>

\* The forecast requests of c, in the order sent.
ForecastRequests(c) == SelectSeq(c.requests, LAMBDA q : q.endpoint = "forecast")

Finished(c) == c.tool \in WeatherTools /\ Terminal(c)

\* C1: whatever the variant, a city for which the geocoder answers with zero
\* matches ends in the variant's not-found outcome, and no forecast request
\* is sent.
C1_ZeroMatchesNotFound ==
    \A s \in Slots :
        LET c == calls[s] IN
        (Finished(c) /\ c.up.geo.status = "ok" /\ c.up.geo.body = <<>>)
            => /\ c.outcome.kind = NotFound(c).kind
               /\ c.outcome.value = NotFound(c).value
               /\ Count(c.requests, "forecast") = 0

\* C2: whatever the variant, a city the geocoder has at least one match for
\* gets exactly one forecast request, carrying the first match's latitude and
\* longitude however many matches came back.
C2_OneForecastFirstMatch ==
    \A s \in Slots :
        LET c == calls[s] IN
        (Finished(c) /\ Geocodes(c))
            => ForecastRequests(c) =
                 <<[endpoint |-> "forecast", text |-> <<>>, limit |-> <<>>,
                    lat |-> c.up.geo.body[1].lat, lon |-> c.up.geo.body[1].lon]>>

\* The geocoding call of c meets an HTTP fault: the request raises, or the
\* status is not 2xx.
GeocodeFaults(c) == c.up.geo.status \in {"fault", "error"}

\* The fault requests raises for such a response.
GeocodeFaultOf(c) == IF c.up.geo.status = "fault" THEN ConnectionFault ELSE HTTPFault

IsErrorSentence(o) ==
    o.kind = "str" /\ Len(o.value) >= 1 /\ o.value[1] = "Error retrieving weather data: "

IsErrorRecord(o) == o.kind = "dict" /\ DOMAIN o.value = {"error"}

\* C3 as stated: on an HTTP fault of the geocoding call the guarded variants
\* return an error outcome and send no forecast request, and get_weather_str
\* propagates the fault.
C3_FaultGuardedOrPropagated ==
    \A s \in Slots :
        LET c == calls[s] IN
        (Finished(c) /\ GeocodeFaults(c))
            => IF c.tool \in Guarded
               THEN /\ IsErrorSentence(c.outcome) \/ IsErrorRecord(c.outcome)
                    /\ Count(c.requests, "forecast") = 0
               ELSE c.outcome.kind = "raise"

\* C3, amended: on an HTTP fault of the geocoding call no variant sends a
\* forecast request; get_weather returns an error sentence and get_weather_1
\* the error record of the fault; get_weather_str propagates a fault raised
\* by the request, but answers a non-2xx status with its not-found sentence.
C3_FaultGuardedOrStatusChecked ==
    \A s \in Slots :
        LET c == calls[s] IN
        (Finished(c) /\ GeocodeFaults(c))
            => /\ Count(c.requests, "forecast") = 0
               /\ c.tool = "get_weather" => IsErrorSentence(c.outcome)
               /\ c.tool = "get_weather_1" =>
                      /\ IsErrorRecord(c.outcome)
                      /\ c.outcome.value.error = <<GeocodeFaultOf(c).msg>>
               /\ (c.tool = "get_weather_str" /\ c.up.geo.status = "fault") =>
                      /\ c.outcome.kind = "raise"
                      /\ c.outcome.value = ConnectionFault
               /\ (c.tool = "get_weather_str" /\ c.up.geo.status = "error") =>
                      /\ c.outcome.kind = "str"
                      /\ c.outcome.value =
                           <<"Sorry, I couldn't find location for ">> \o c.arg \o <<".">>

\* C3 witness: get_weather_str has answered a non-2xx geocoding status with
\* its not-found sentence.
C3_Witness ==
    \E s \in Slots :
        /\ Finished(calls[s])
        /\ calls[s].tool = "get_weather_str"
        /\ calls[s].up.geo.status = "error"
        /\ calls[s].outcome.kind = "str"

\* C4: a guarded variant never ends by raising; a fault at any step comes back
\* as a value carrying the fault's text, an error sentence from get_weather, a
\* one-key error record from get_weather_1.
C4_GuardedNeverRaises ==
    \A s \in Slots :
        LET c == calls[s] IN
        (Terminal(c) /\ c.tool \in Guarded)
            => /\ c.outcome.kind \in {"str", "dict"}
               /\ c.fault # NoFault =>
                    /\ c.tool = "get_weather" =>
                         /\ IsErrorSentence(c.outcome)
                         /\ Contains(c.outcome.value, <<c.fault.msg>>)
                    /\ c.tool = "get_weather_1" =>
                         /\ IsErrorRecord(c.outcome)
                         /\ c.outcome.value.error = <<c.fault.msg>>

\* C4 witness: get_weather_1 has caught a fault of the forecast step.
C4_Witness ==
    \E s \in Slots :
        /\ calls[s].tool = "get_weather_1"
        /\ calls[s].pc = "FORECAST_FAILED"
        /\ calls[s].fault.type = "JSONDecodeError"
        /\ Len(calls[s].requests) = 2

\* The transitions of the per-invocation state machine.
Transitions ==
    { <<"START", "GEOCODING">>,
      <<"GEOCODING", "NOT_FOUND">>, <<"GEOCODING", "GEOCODE_FAILED">>,
      <<"GEOCODING", "GEOCODED">>, <<"GEOCODED", "FORECASTING">>,
      <<"FORECASTING", "FORECAST_FAILED">>, <<"FORECASTING", "DONE">> }

\* C5: an invocation of a weather variant walks START -> GEOCODING ->
\* (NOT_FOUND | GEOCODE_FAILED | GEOCODED), GEOCODED -> FORECASTING ->
\* (FORECAST_FAILED | DONE) and enters no state twice; it sends at most one
\* geocoding and at most one forecast request, the forecast request only after
\* its own geocoding request came back 2xx with at least one match.
C5_StateMachine ==
    \A s \in Slots :
        LET c == calls[s] IN
        c.tool \in WeatherTools
            => /\ c.trail[1] = "START"
               /\ c.trail[Len(c.trail)] = c.pc
               /\ \A i \in 1..(Len(c.trail) - 1) : <<c.trail[i], c.trail[i + 1]>> \in Transitions
               /\ \A i, j \in 1..Len(c.trail) : i # j => c.trail[i] # c.trail[j]
               /\ Count(c.requests, "geocode") <= 1
               /\ Count(c.requests, "forecast") <= 1
               /\ Count(c.requests, "search") = 0
               /\ \A i \in 1..Len(c.requests) :
                     c.requests[i].endpoint = "forecast"
                         => /\ i = 2
                            /\ c.requests[1].endpoint = "geocode"
                            /\ \E k \in 1..Len(c.trail) : c.trail[k] = "GEOCODED"
                            /\ c.up.geo.status = "ok"
                            /\ Len(c.up.geo.body) >= 1

\* C5 witness: an invocation is done after one geocoding and one forecast request.
C5_Witness ==
    \E s \in Slots :
        /\ calls[s].tool \in WeatherTools
        /\ calls[s].pc = "DONE"
        /\ Len(calls[s].requests) = 2
        /\ Len(calls[s].up.geo.body) = 2

\* The forecast answer of c is a 2xx JSON body that lacks the current_weather
\* object or one of its three fields.
LacksField(c) ==
    /\ c.up.wx.status = "ok"
    /\ \/ c.up.wx.body = <<>>
       \/ c.up.wx.body[1].temperature = <<>>
       \/ c.up.wx.body[1].windspeed = <<>>
       \/ c.up.wx.body[1].weathercode = <<>>

\* C6: whatever the variant, a 2xx forecast answer that lacks the
\* current-conditions object or one of its fields still ends in a success
\* outcome, the missing value shown as None; no error outcome, no raise.
C6_MissingFieldIsNone ==
    \A s \in Slots :
        LET c == calls[s]
            cur == CurrentOrEmpty(c.up.wx.body)
        IN
        (Finished(c) /\ Geocodes(c) /\ LacksField(c))
            => /\ c.pc = "DONE"
               /\ c.fault = NoFault
               /\ c.tool = "get_weather_1" =>
                    /\ c.outcome.kind = "dict"
                    /\ DOMAIN c.outcome.value =
                         {"city", "temperature_celsius", "windspeed_kmh", "weather_code"}
                    /\ c.outcome.value.temperature_celsius = cur.temperature
                    /\ c.outcome.value.windspeed_kmh = cur.windspeed
                    /\ c.outcome.value.weather_code = cur.weathercode
               /\ c.tool # "get_weather_1" =>
                    /\ c.outcome.kind = "str"
                    /\ (cur.temperature = <<>> \/ cur.windspeed = <<>>)
                          => Contains(c.outcome.value, NoneText)

\* The title-cased spelling of each city of the model, written out.
Titled(city) ==
    CASE city = <<"b","e","r","l","i","n">> -> <<"B","e","r","l","i","n">>
      [] city = <<"B","e","r","l","i","n">> -> <<"B","e","r","l","i","n">>
      [] city = <<"n","e","w"," ","y","o","r","k">> -> <<"N","e","w"," ","Y","o","r","k">>

\* The spelling of each reading of the model, written out.
Spelled(tenths) ==
    CASE tenths = 180 -> <<"1","8",".","0">>
      [] tenths = 100 -> <<"1","0",".","0">>
      [] tenths = -35 -> <<"-","3",".","5">>

\* The forecast answer of c is a 2xx JSON body holding all three readings.
Reads(c) ==
    /\ c.up.wx.status = "ok"
    /\ c.up.wx.body # <<>>
    /\ c.up.wx.body[1].temperature # <<>>
    /\ c.up.wx.body[1].windspeed # <<>>
    /\ c.up.wx.body[1].weathercode # <<>>

\* C7: for a city the geocoder matches and a forecast holding temperature T,
\* windspeed W and weathercode C, get_weather_1 returns exactly the record
\* {city: title-cased city, temperature_celsius: T, windspeed_kmh: W,
\* weather_code: C}: "Berlin", 18.0, 10.0, 2 gives
\* {city: "Berlin", temperature_celsius: 18.0, windspeed_kmh: 10.0, weather_code: 2}.
C7_StructuredRecord ==
    \A s \in Slots :
        LET c == calls[s] IN
        (Finished(c) /\ c.tool = "get_weather_1" /\ Geocodes(c) /\ Reads(c))
            => /\ c.outcome.kind = "dict"
               /\ c.outcome.value =
                    [city |-> Titled(c.arg),
                     temperature_celsius |-> c.up.wx.body[1].temperature,
                     windspeed_kmh |-> c.up.wx.body[1].windspeed,
                     weather_code |-> c.up.wx.body[1].weathercode]

\* C7 witness: get_weather_1 is done for "berlin" with 18.0, 10.0 and code 2.
C7_Witness ==
    \E s \in Slots :
        /\ calls[s].tool = "get_weather_1"
        /\ calls[s].pc = "DONE"
        /\ calls[s].arg = <<"b","e","r","l","i","n">>
        /\ Reads(calls[s])
        /\ calls[s].up.wx.body[1] = [temperature |-> <<180>>, windspeed |-> <<100>>,
                                     weathercode |-> <<2>>]

\* C8: for a city the geocoder matches and a forecast holding temperature T
\* and windspeed W, get_weather and get_weather_str each return a string that
\* contains the text of T, the text of W and the title-cased city name:
\* "berlin", 18.0, 10.0 gives a string containing "18.0", "10.0" and "Berlin".
C8_SentenceContains ==
    \A s \in Slots :
        LET c == calls[s] IN
        (Finished(c) /\ c.tool \in {"get_weather", "get_weather_str"}
                     /\ Geocodes(c) /\ Reads(c))
            => /\ c.outcome.kind = "str"
               /\ Contains(c.outcome.value, Spelled(c.up.wx.body[1].temperature[1]))
               /\ Contains(c.outcome.value, Spelled(c.up.wx.body[1].windspeed[1]))
               /\ Contains(c.outcome.value, Titled(c.arg))

\* C9: an invocation of search sends exactly one request to the backend, with
\* the query as given and the limit of the run context's max_search_results,
\* and returns the backend's answer; a fault of the backend reaches the caller.
C9_SearchOnce ==
    \A s \in Slots :
        LET c == calls[s] IN
        c.tool = "search"
            => /\ Count(c.requests, "search") = (IF c.pc = "START" THEN 0 ELSE 1)
               /\ Len(c.requests) = Count(c.requests, "search")
               /\ \A i \in 1..Len(c.requests) :
                     /\ c.requests[i].text = c.arg
                     /\ c.requests[i].limit = c.up.ctx
               /\ Terminal(c) =>
                     IF c.up.search.status = "fault"
                     THEN c.outcome.kind = "raise" /\ c.outcome.value = BackendFault
                     ELSE IF c.up.search.body = <<>>
                     THEN c.outcome.kind = "none"
                     ELSE c.outcome.kind = "dict" /\ c.outcome.value = c.up.search.body[1]

\* C9 witness: a search under max_search_results = 3 has ended in the
\* backend's fault.
C9_Witness ==
    \E s \in Slots :
        /\ calls[s].tool = "search"
        /\ calls[s].pc = "SEARCH_FAILED"
        /\ calls[s].up.ctx = <<3>>
        /\ Len(calls[s].requests) = 1

====
